---- MODULE Spec2Model ----
(***************************************************************************)
(* Model of SphericalHarmonicsVisualization (src/unnamed/part_001).        *)
(*                                                                         *)
(* Two specifications share the module:                                    *)
(*   Spec    the component: slider handlers, the debounce timer and the   *)
(*           scene effect keyed on the committed (l, m);                   *)
(*   SpecFn  the pure numerical kernel (calculateLegendreP, calculateYlm,  *)
(*           factorial, valueToColor) applied to inputs drawn by Init.     *)
(*                                                                         *)
(* JavaScript numbers are modelled as exact rationals <<num, den>>.        *)
(* Math.sqrt is exact on the inputs used (rational points of the unit      *)
(* circle), angles are points <<cos, sin>> of the unit circle, and the     *)
(* irrational normalisation sqrt(q / pi) is carried as its square.         *)
(***************************************************************************)
EXTENDS Integers, FiniteSets, Sequences, TLC

VARIABLES l, m, draftL, draftM, updateTimeoutRef, timers,
          canvases, animLoops, resizeListeners, sphere,
          call, ret

vars == <<l, m, draftL, draftM, updateTimeoutRef, timers,
          canvases, animLoops, resizeListeners, sphere, call, ret>>

uiVars == <<l, m, draftL, draftM, updateTimeoutRef, timers,
            canvases, animLoops, resizeListeners, sphere>>

fnVars == <<call, ret>>

(***************************************************************************)
(* Bounds of the exploration.                                              *)
(***************************************************************************)
\* largest degree the sliders are driven to (the slider itself allows 20)
MaxDegree == 6
\* largest degree for which the kernel is evaluated at a general argument
MaxL == 3
\* largest |order| handed to the kernel (beyond MaxL: out-of-range orders)
MaxOrder == 5
\* valueToColor inputs are k / ColorDen for k in -MaxColorNum..MaxColorNum
MaxColorNum == 20
\* effect runs explored before further commits are cut off
MaxEffectRuns == 3

(***************************************************************************)
(* Program constants.                                                      *)
(***************************************************************************)
DegreeSliderMin == 0
DegreeSliderMax == 20
InitialL == 3
InitialM == 0

(***************************************************************************)
(* Exact rational arithmetic standing for JavaScript number arithmetic.    *)
(***************************************************************************)
Abs(n) == IF n < 0 THEN -n ELSE n

Min(a, b) == IF a < b THEN a ELSE b

RECURSIVE Gcd(_, _)
Gcd(a, b) == IF b = 0 THEN a ELSE Gcd(b, a % b)

\* the rational n / d in lowest terms with a positive denominator
Q(n, d) ==
    LET g == Gcd(Abs(n), Abs(d))
        s == IF d < 0 THEN -1 ELSE 1
    IN  <<(s * n) \div g, (s * d) \div g>>

Num(i) == <<i, 1>>

Zero == Num(0)

One == Num(1)

QAdd(a, b) == Q(a[1] * b[2] + b[1] * a[2], a[2] * b[2])

QNeg(a) == <<-a[1], a[2]>>

QSub(a, b) == QAdd(a, QNeg(b))

QMul(a, b) == Q(a[1] * b[1], a[2] * b[2])

QDiv(a, b) == Q(a[1] * b[2], a[2] * b[1])

QLt(a, b) == a[1] * b[2] < b[1] * a[2]

QLe(a, b) == a[1] * b[2] <= b[1] * a[2]

\* Math.max / Math.min
MathMax(a, b) == IF QLt(a, b) THEN b ELSE a

MathMin(a, b) == IF QLt(b, a) THEN b ELSE a

ISqrt(n) == CHOOSE r \in 0..n : r * r = n

\* Math.sqrt, exact: the arguments used are squares of rationals
MathSqrt(a) == <<ISqrt(a[1]), ISqrt(a[2])>>

(***************************************************************************)
(* Angles: points <<cos, sin>> of the unit circle with rational            *)
(* coordinates.                                                            *)
(***************************************************************************)
Angle(cn, sn, d) == <<Q(cn, d), Q(sn, d)>>

\* polar angles theta = acos(z / r), in [0, pi]
Thetas ==
    { Angle(1, 0, 1), Angle(4, 3, 5), Angle(3, 4, 5), Angle(0, 1, 1),
      Angle(-3, 4, 5), Angle(-4, 3, 5), Angle(-1, 0, 1) }

\* azimuthal angles phi = atan2(y, x), in (-pi, pi]
Phis ==
    { Angle(1, 0, 1), Angle(3, 4, 5), Angle(0, 1, 1), Angle(-4, 3, 5),
      Angle(-1, 0, 1), Angle(-3, -4, 5), Angle(0, -1, 1), Angle(4, -3, 5) }

\* arguments x = cos(theta) of calculateLegendreP
Xs == { t[1] : t \in Thetas }

\* the angle a + b
AngleAdd(a, b) ==
    << QSub(QMul(a[1], b[1]), QMul(a[2], b[2])),
       QAdd(QMul(a[2], b[1]), QMul(a[1], b[2])) >>

AngleNeg(a) == <<a[1], QNeg(a[2])>>

\* the angle k * a, k an integer
RECURSIVE AngleTimes(_, _)
AngleTimes(k, a) ==
    IF k = 0 THEN <<One, Zero>>
    ELSE IF k < 0 THEN AngleNeg(AngleTimes(-k, a))
    ELSE AngleAdd(AngleTimes(k - 1, a), a)

MathCos(a) == a[1]

(***************************************************************************)
(* calculateLegendreP: associated Legendre polynomial P_l^m(x).            *)
(***************************************************************************)
\* the range check `m < 0 || m > l`, with the bound off by one
OrderOutOfRangeOffByOne(l_, m_) == m_ < 0 \/ m_ > l_ + 1

\* the range check `m < 0 || m > l`, with its second half missing
OrderOutOfRangeLowerOnly(l_, m_) == m_ < 0

\* `m < 0 || m > l`
OrderOutOfRange(l_, m_) == m_ < 0 \/ m_ > l_

\* A rational <<n, d>> with d > 0 is a finite number.  A division by zero
\* would give <<n, 0>>: Infinity or NaN, which every later operation of the
\* kernel hands on to its result.
IsFinite(a) == a[2] > 0

\* for (i = 1; i <= m; i++) { pmm *= -fact * somx2; fact += 2.0; }
RECURSIVE SeedLoop(_, _, _, _, _, _)
SeedLoop(i, m_, pmm, fact, somx2, n) ==
    IF i <= m_
    THEN LET next == QMul(pmm, QMul(QNeg(fact), somx2))
         IN  IF IsFinite(next)
             THEN SeedLoop(i + 1, m_, next, QAdd(fact, Num(2)), somx2, n + 1)
             ELSE [pmm |-> next, iters |-> n + 1]
    ELSE [pmm |-> pmm, iters |-> n]

\* the recurrence step with the coefficient of pmm off by one
RecurrenceStepOffByOne(ll, m_, x, pmmp1, pmm) ==
    QDiv(QSub(QMul(QMul(x, Num(2 * ll - 1)), pmmp1),
              QMul(Num(ll + m_), pmm)),
         Num(ll - m_))

\* pll = (x * (2 * ll - 1) * pmmp1 - (ll + m - 1) * pmm) / (ll - m)
RecurrenceStep(ll, m_, x, pmmp1, pmm) ==
    QDiv(QSub(QMul(QMul(x, Num(2 * ll - 1)), pmmp1),
              QMul(Num(ll + m_ - 1), pmm)),
         Num(ll - m_))

\* for (ll = m + 2; ll <= l; ll++) { pll = ...; pmm = pmmp1; pmmp1 = pll; }
RECURSIVE RecurrenceLoop(_, _, _, _, _, _, _, _)
RecurrenceLoop(ll, l_, m_, x, pmm, pmmp1, pll, n) ==
    IF ll <= l_
    THEN LET next == RecurrenceStep(ll, m_, x, pmmp1, pmm)
         IN  IF IsFinite(next)
             THEN RecurrenceLoop(ll + 1, l_, m_, x, pmmp1, next, next, n + 1)
             ELSE [pll |-> next, iters |-> n + 1]
    ELSE [pll |-> pll, iters |-> n]

\* One run of calculateLegendreP: the value returned, and how many times
\* the bodies of the seed loop and of the recurrence loop were executed.
LegendreRun(l_, m_, x) ==
    IF OrderOutOfRange(l_, m_)
    THEN [val |-> Zero, seedIters |-> 0, recIters |-> 0]
    ELSE IF l_ = 0
    THEN [val |-> One, seedIters |-> 0, recIters |-> 0]
    ELSE
      LET somx2 == MathSqrt(QMul(QSub(One, x), QAdd(One, x)))
          seed  == SeedLoop(1, m_, One, One, somx2, 0)
          pmm   == seed.pmm
          pmmp1 == QMul(QMul(x, Num(2 * m_ + 1)), pmm)
          rec   == RecurrenceLoop(m_ + 2, l_, m_, x, pmm, pmmp1, Zero, 0)
      IN  IF l_ = m_
          THEN [val |-> pmm, seedIters |-> seed.iters, recIters |-> 0]
          ELSE IF l_ = m_ + 1
          THEN [val |-> pmmp1, seedIters |-> seed.iters, recIters |-> 0]
          ELSE [val |-> rec.pll, seedIters |-> seed.iters,
                recIters |-> rec.iters]

calculateLegendreP(l_, m_, x) == LegendreRun(l_, m_, x).val

(***************************************************************************)
(* factorial and calculateYlm.                                             *)
(***************************************************************************)
RECURSIVE factorial(_)
factorial(n) == IF n <= 1 THEN 1 ELSE n * factorial(n - 1)

\* the sign factor with the parity test dropped: -1 for every m < 0
mSignAlwaysMinus(m_) == IF m_ < 0 THEN -1 ELSE 1

\* the sign factor omitted: 1 for every m
mSignOmitted(m_) == 1

\* m < 0 ? (Math.abs(m) % 2 === 0 ? 1 : -1) : 1
mSign(m_) == IF m_ < 0 THEN (IF Abs(m_) % 2 = 0 THEN 1 ELSE -1) ELSE 1

\* norm * norm * pi, for
\* norm = sqrt(((2l+1) * factorial(l-|m|)) / (4 * pi * factorial(l+|m|)))
NormSqTimesPi(l_, m_) ==
    Q((2 * l_ + 1) * factorial(l_ - Abs(m_)), 4 * factorial(l_ + Abs(m_)))

\* The value returned is sqrt(normSq / pi) * rest: normSq is the rational
\* NormSqTimesPi, rest the product legendre * real * mSign.
calculateYlm(l_, m_, theta, phi) ==
    LET cosTheta == MathCos(theta)
        legendre == calculateLegendreP(l_, Abs(m_), cosTheta)
        real     == MathCos(AngleTimes(m_, phi))
    IN  [normSq |-> NormSqTimesPi(l_, m_),
         rest   |-> QMul(QMul(legendre, real), Num(mSign(m_)))]

\* comparisons of values sqrt(normSq / pi) * rest
Sign(a) == IF a[1] > 0 THEN 1 ELSE IF a[1] < 0 THEN -1 ELSE 0

YFinite(y) == y.normSq[1] >= 0 /\ IsFinite(y.normSq) /\ IsFinite(y.rest)

YIsZero(y) == YFinite(y) /\ (y.normSq = Zero \/ y.rest = Zero)

YSign(y) == IF y.normSq = Zero THEN 0 ELSE Sign(y.rest)

\* sqrt(qa / pi) * ra = sqrt(qb / pi) * rb: with the same normalisation,
\* ra = rb; otherwise the signs agree and (ra / rb)^2 = qb / qa
YEq(a, b) ==
    IF a.normSq = b.normSq /\ a.normSq # Zero
    THEN a.rest = b.rest
    ELSE /\ YSign(a) = YSign(b)
         /\ YSign(a) # 0 =>
               LET r == QDiv(a.rest, b.rest)
               IN  QMul(r, r) = QDiv(b.normSq, a.normSq)

YNeg(y) == [normSq |-> y.normSq, rest |-> QNeg(y.rest)]

(***************************************************************************)
(* valueToColor: the (h, s, l) triple handed to THREE.Color.setHSL.        *)
(***************************************************************************)
\* the normalisation with the clamp missing
NormalizedUnclamped(value) == QDiv(QAdd(value, One), Num(2))

\* (Math.max(-1, Math.min(1, value)) + 1) / 2
Normalized(value) ==
    QDiv(QAdd(MathMax(Num(-1), MathMin(One, value)), One), Num(2))

\* the hue with the wrong slope
HueWrongSlope(normalized) == QSub(Q(8, 10), QMul(normalized, Q(8, 10)))

\* 0.8 - normalized * 0.7
Hue(normalized) == QSub(Q(8, 10), QMul(normalized, Q(7, 10)))

\* 0.8
Saturation == Q(8, 10)

\* 0.3 + normalized * 0.4
Lightness(normalized) == QAdd(Q(3, 10), QMul(normalized, Q(4, 10)))

valueToColor(value) ==
    LET normalized == Normalized(value)
    IN  [h |-> Hue(normalized), s |-> Saturation, l |-> Lightness(normalized)]

(***************************************************************************)
(* The component: state after the first render and the first effect run.   *)
(*                                                                         *)
(*   l, m, draftL, draftM  the four useState cells                         *)
(*   updateTimeoutRef      the id last returned by setTimeout (NoTimer:    *)
(*                         null); it is not reset when the timer fires     *)
(*   timers                the timeouts armed and neither fired nor        *)
(*                         cleared, each carrying the pair it will commit  *)
(*   canvases              renderer canvases that are children of the      *)
(*                         container                                       *)
(*   animLoops             animate callbacks pending in the frame queue    *)
(*   resizeListeners       handleResize listeners registered on window     *)
(*   sphere                the (l, m) calculateYlm was called with to      *)
(*                         colour the mesh referenced by sphereRef         *)
(***************************************************************************)
NoTimer == 0

\* the degrees the degree slider is driven to: min="0" max="20", bounded
DegreeValues == DegreeSliderMin..Min(DegreeSliderMax, MaxDegree)

\* the values of the order slider: min={-draftL} max={draftL}
OrderValues == (-draftL)..draftL

\* setTimeout returns an id that no live timeout and no held reference has
NewTimerId(live) ==
    LET used == {t.id : t \in live} \cup {updateTimeoutRef}
    IN  CHOOSE i \in 1..(Cardinality(used) + 1) :
            i \notin used /\ \A j \in 1..(i - 1) : j \in used

\* clearTimeout(id): the timeout with that id, if still armed, is dropped
clearTimeout(id) == {t \in timers : t.id # id}

\* debouncedUpdate with the clearTimeout call missing
debouncedUpdateNoClear(newL, newM) ==
    LET id == NewTimerId(timers)
    IN  /\ timers' = timers \cup {[id |-> id, newL |-> newL, newM |-> newM]}
        /\ updateTimeoutRef' = id

debouncedUpdate(newL, newM) ==
    LET live == IF updateTimeoutRef # NoTimer
                THEN clearTimeout(updateTimeoutRef)
                ELSE timers
        id   == NewTimerId(live)
    IN  /\ timers' = live \cup {[id |-> id, newL |-> newL, newM |-> newM]}
        /\ updateTimeoutRef' = id

\* the degree handler without the reset of the order
onDegreeChangeNoReset(newL) ==
    /\ draftL' = newL
    /\ UNCHANGED draftM
    /\ debouncedUpdate(newL, draftM)

\* onChange of the degree slider
onDegreeChange(newL) ==
    /\ draftL' = newL
    /\ IF Abs(draftM) > newL
       THEN /\ draftM' = 0
            /\ debouncedUpdate(newL, 0)
       ELSE /\ UNCHANGED draftM
            /\ debouncedUpdate(newL, draftM)

\* onChange of the order slider
onOrderChange(newM) ==
    /\ draftM' = newM
    /\ UNCHANGED draftL
    /\ debouncedUpdate(draftL, newM)

\* The cleanup of the previous effect run followed by the new run, for the
\* committed pair (newL, newM).  The cleanup removes the resize listener and
\* the canvas and disposes the sphere and the controls; it does not cancel
\* the frame callback of animate.  The run appends a canvas, colours a new
\* sphere with calculateYlm(newL, newM, ...), calls animate() and registers
\* handleResize.
sceneEffect(newL, newM) ==
    /\ resizeListeners' = (resizeListeners - 1) + 1
    /\ canvases' = (canvases - 1) + 1
    /\ sphere' = <<newL, newM>>
    /\ animLoops' = animLoops + 1

\* the timeout callback: setL(newL); setM(newM).  Both updates are batched
\* into one render (a client component of the app router: React 18 or
\* later), so no render sees (newL, old m).  The effect re-runs when l or m
\* changed; MaxEffectRuns cuts the exploration off.
timeoutCallback(t) ==
    /\ l' = t.newL
    /\ m' = t.newM
    /\ IF <<t.newL, t.newM>> # <<l, m>>
       THEN /\ animLoops < MaxEffectRuns
            /\ sceneEffect(t.newL, t.newM)
       ELSE UNCHANGED <<canvases, animLoops, resizeListeners, sphere>>

DegreeChange ==
    \E newL \in DegreeValues :
        /\ newL # draftL
        /\ onDegreeChange(newL)
        /\ UNCHANGED <<l, m, canvases, animLoops, resizeListeners, sphere>>
        /\ UNCHANGED fnVars

OrderChange ==
    \E newM \in OrderValues :
        /\ newM # draftM
        /\ onOrderChange(newM)
        /\ UNCHANGED <<l, m, canvases, animLoops, resizeListeners, sphere>>
        /\ UNCHANGED fnVars

TimerFire ==
    \E t \in timers :
        /\ timers' = timers \ {t}
        /\ timeoutCallback(t)
        /\ UNCHANGED <<draftL, draftM, updateTimeoutRef>>
        /\ UNCHANGED fnVars

\* animate: one pending frame callback runs, re-arms itself with
\* requestAnimationFrame(animate), updates the controls and renders
AnimationFrame ==
    /\ animLoops > 0
    /\ animLoops' = (animLoops - 1) + 1
    /\ UNCHANGED <<l, m, draftL, draftM, updateTimeoutRef, timers,
                   canvases, resizeListeners, sphere>>
    /\ UNCHANGED fnVars

NoCall == [fn |-> "none"]

NoRet == <<>>

UIInit ==
    /\ l = InitialL
    /\ m = InitialM
    /\ draftL = InitialL
    /\ draftM = InitialM
    /\ updateTimeoutRef = NoTimer
    /\ timers = {}
    /\ canvases = 1
    /\ animLoops = 1
    /\ resizeListeners = 1
    /\ sphere = <<InitialL, InitialM>>

Init ==
    /\ UIInit
    /\ call = NoCall
    /\ ret = NoRet

Next ==
    \/ DegreeChange
    \/ OrderChange
    \/ TimerFire
    \/ AnimationFrame

Spec == Init /\ [][Next]_vars

(***************************************************************************)
(* The kernel applied to one call: Init draws the call, the action         *)
(* returns its result.                                                     *)
(***************************************************************************)
\* calculateLegendreP at a general argument, orders in and out of range
LegendreCallsGeneral ==
    { [fn |-> "calculateLegendreP", l |-> a, m |-> b, x |-> c] :
        a \in 0..MaxL, b \in (-MaxOrder)..MaxOrder, c \in Xs }

\* calculateLegendreP over the whole range of the degree slider, at the
\* poles x = 1 and x = -1: order 0 and the orders just out of range
LegendreCallsPoles ==
    { [fn |-> "calculateLegendreP", l |-> a, m |-> b, x |-> c] :
        a \in DegreeSliderMin..DegreeSliderMax,
        b \in {-1, 0} \cup ((DegreeSliderMax + 1)..(DegreeSliderMax + 2)),
        c \in {One, QNeg(One)} }

YlmCalls ==
    { [fn |-> "calculateYlm", l |-> a, m |-> b, theta |-> t, phi |-> p] :
        a \in 0..MaxL, b \in (-MaxOrder)..MaxOrder,
        t \in Thetas, p \in Phis }

ColorCalls ==
    { [fn |-> "valueToColor", value |-> Q(k, 4)] :
        k \in (-MaxColorNum)..MaxColorNum }

FnInit ==
    /\ UIInit
    /\ ret = NoRet
    /\ \/ call \in LegendreCallsGeneral
       \/ call \in LegendreCallsPoles
       \/ call \in YlmCalls
       \/ call \in ColorCalls

Returned == ret # NoRet

CallLegendreP ==
    /\ call.fn = "calculateLegendreP"
    /\ ~Returned
    /\ ret' = <<LegendreRun(call.l, call.m, call.x)>>
    /\ UNCHANGED <<call, uiVars>>

CallYlm ==
    /\ call.fn = "calculateYlm"
    /\ ~Returned
    /\ ret' = <<calculateYlm(call.l, call.m, call.theta, call.phi)>>
    /\ UNCHANGED <<call, uiVars>>

CallValueToColor ==
    /\ call.fn = "valueToColor"
    /\ ~Returned
    /\ ret' = <<valueToColor(call.value)>>
    /\ UNCHANGED <<call, uiVars>>

FnNext ==
    \/ CallLegendreP
    \/ CallYlm
    \/ CallValueToColor

SpecFn == FnInit /\ [][FnNext]_vars

(***************************************************************************)
(* Properties.                                                             *)
(***************************************************************************)
LegendreReturned == call.fn = "calculateLegendreP" /\ Returned

YlmReturned == call.fn = "calculateYlm" /\ Returned

ColorReturned == call.fn = "valueToColor" /\ Returned

\* C1: for every degree l >= 0 and every order m with m < 0 or m > l,
\* calculateLegendreP(l, m, x) returns exactly 0 without entering the seed
\* loop or the recurrence loop, also for l = 0 with m # 0.
C1_OutOfRangeOrderIsZero ==
    (LegendreReturned /\ (call.m < 0 \/ call.m > call.l)) =>
        /\ ret[1].val = Zero
        /\ ret[1].seedIters = 0
        /\ ret[1].recIters = 0

C1_Witness ==
    /\ LegendreReturned
    /\ call.l = 0
    /\ call.m = 1
    /\ ret[1].val = Zero

\* C2: for every degree l in 0..20, calculateLegendreP(l, 0, 1) = 1; the
\* recurrence loop runs l - 1 times for l >= 2 and not at all otherwise.
C2_LegendreAtOneIsOne ==
    (LegendreReturned /\ call.m = 0 /\ call.x = One) =>
        /\ ret[1].val = One
        /\ ret[1].seedIters = 0
        /\ ret[1].recIters = (IF call.l >= 2 THEN call.l - 1 ELSE 0)

C2_Witness ==
    /\ LegendreReturned
    /\ call.l = DegreeSliderMax
    /\ call.m = 0
    /\ call.x = One
    /\ ret[1].recIters = DegreeSliderMax - 1
    /\ ret[1].val = One

\* C3, as stated: for l = 2 and any fixed (theta, phi), calculateYlm(2, 1,
\* theta, phi) and calculateYlm(2, -1, theta, phi) are equal.
C3_OrdersOneAndMinusOneEqual ==
    (YlmReturned /\ call.l = 2 /\ call.m = 1) =>
        YEq(ret[1], calculateYlm(2, -1, call.theta, call.phi))

\* C3, amended: for l = 2 and any fixed (theta, phi), calculateYlm(2, -1,
\* theta, phi) is the negative of calculateYlm(2, 1, theta, phi).
C3_OrderMinusOneIsNegated ==
    (YlmReturned /\ call.l = 2 /\ call.m = -1) =>
        YEq(ret[1], YNeg(calculateYlm(2, 1, call.theta, call.phi)))

C3_Witness ==
    /\ YlmReturned
    /\ call.l = 2
    /\ call.m = -1
    /\ ~YIsZero(ret[1])
    /\ ~YIsZero(calculateYlm(2, 1, call.theta, call.phi))

\* C4: for every degree l >= 0 and every order m with |m| > l, calculateYlm
\* returns zero: factorial(l - |m|) is 1 for the negative argument, the
\* normalisation is finite and the Legendre factor is 0.
C4_OrderBeyondDegreeIsZero ==
    (YlmReturned /\ Abs(call.m) > call.l) =>
        /\ factorial(call.l - Abs(call.m)) = 1
        /\ YFinite(ret[1])
        /\ ret[1].normSq[1] > 0
        /\ calculateLegendreP(call.l, Abs(call.m), MathCos(call.theta)) = Zero
        /\ YIsZero(ret[1])

C4_Witness ==
    /\ YlmReturned
    /\ call.l = 0
    /\ call.m = -1
    /\ call.phi = Angle(1, 0, 1)
    /\ YIsZero(ret[1])

\* C5: after any sequence of slider changes and timer firings, the draft
\* pair and the committed pair satisfy |m| <= l, and so does the pair the
\* sphere was coloured with by calculateYlm.
C5_OrderWithinDegree ==
    /\ Abs(draftM) <= draftL
    /\ Abs(m) <= l
    /\ Abs(sphere[2]) <= sphere[1]
    /\ \A t \in timers : Abs(t.newM) <= t.newL

C5_Witness ==
    /\ Abs(m) > draftL
    /\ draftM = 0
    /\ timers # {}
    /\ sphere = <<l, m>>

\* C6: valueToColor clamps its input to [-1, 1]: every value >= 1 gives the
\* colour of 1 and every value <= -1 gives the colour of -1.
C6_ColorClamps ==
    ColorReturned =>
        /\ QLe(One, call.value) => ret[1] = valueToColor(One)
        /\ QLe(call.value, Num(-1)) => ret[1] = valueToColor(Num(-1))

C6_Witness ==
    /\ ColorReturned
    /\ call.value = Num(5)
    /\ ret[1] = valueToColor(One)
    /\ ret[1] # valueToColor(Num(-5))

\* C7: valueToColor maps -1 to hue 0.8 and lightness 0.3, 1 to hue 0.1 and
\* lightness 0.7, uses saturation 0.8 throughout, keeps the hue in
\* [0.1, 0.8] and the lightness in [0.3, 0.7], the hue decreasing and the
\* lightness increasing in the value.
C7_ColorRange ==
    ColorReturned =>
        /\ ret[1].s = Q(8, 10)
        /\ call.value = Num(-1) => (ret[1].h = Q(8, 10) /\ ret[1].l = Q(3, 10))
        /\ call.value = One => (ret[1].h = Q(1, 10) /\ ret[1].l = Q(7, 10))
        /\ QLe(Q(1, 10), ret[1].h) /\ QLe(ret[1].h, Q(8, 10))
        /\ QLe(Q(3, 10), ret[1].l) /\ QLe(ret[1].l, Q(7, 10))
        /\ \A c \in ColorCalls :
              QLe(call.value, c.value) =>
                  /\ QLe(valueToColor(c.value).h, ret[1].h)
                  /\ QLe(ret[1].l, valueToColor(c.value).l)

C7_Witness ==
    /\ ColorReturned
    /\ call.value = One
    /\ ret[1] = [h |-> Q(1, 10), s |-> Q(8, 10), l |-> Q(7, 10)]

\* C8: for 1 <= k <= l, calculateYlm(l, -k, theta, phi) is (-1)^k times
\* calculateYlm(l, k, theta, phi), with the same normalisation; for m >= 0
\* the sign factor is 1.
C8_NegativeOrderSign ==
    YlmReturned =>
        LET k == Abs(call.m)
            pos == calculateYlm(call.l, k, call.theta, call.phi)
            legendre == calculateLegendreP(call.l, k, MathCos(call.theta))
        IN  /\ (call.m < 0 /\ k <= call.l) =>
                /\ ret[1].normSq = pos.normSq
                /\ ret[1].rest =
                      (IF k % 2 = 0 THEN pos.rest ELSE QNeg(pos.rest))
                /\ YEq(ret[1], IF k % 2 = 0 THEN pos ELSE YNeg(pos))
            /\ call.m >= 0 =>
                ret[1].rest = QMul(legendre, MathCos(AngleTimes(k, call.phi)))

C8_Witness ==
    /\ YlmReturned
    /\ call.l = 2
    /\ call.m = -2
    /\ ~YIsZero(ret[1])
    /\ YEq(ret[1], calculateYlm(2, 2, call.theta, call.phi))

\* C9: at most one timer is pending, it carries the current draft pair and
\* is the one updateTimeoutRef names, so a firing commits the pair of the
\* most recent slider change; with no timer pending the committed pair
\* equals the draft pair.
C9_DebounceLastWriteWins ==
    /\ Cardinality(timers) <= 1
    /\ \A t \in timers :
          /\ t.id = updateTimeoutRef
          /\ t.newL = draftL
          /\ t.newM = draftM
    /\ timers = {} => (l = draftL /\ m = draftM)

C9_Witness ==
    /\ timers = {}
    /\ updateTimeoutRef = 2
    /\ <<l, m>> # <<InitialL, InitialM>>
    /\ <<l, m>> = <<draftL, draftM>>

\* C10: after any sequence of parameter commits at most one animation loop
\* and one renderer canvas in the container are live.
C10_SingleAnimationLoop ==
    /\ animLoops <= 1
    /\ canvases <= 1

====
